---- MODULE Spec2Model ----
(***************************************************************************)
(* Model of the resolve() built-in of fhirpath-rs                          *)
(* (src/registry/functions/fhir_types/resolve.rs).                         *)
(*                                                                         *)
(* Strings are sequences of one-character strings, so that trim, split,    *)
(* prefix tests and equality are computed the way the code computes them.  *)
(* JSON values (serde_json::Value) are tagged records:                     *)
(*   [k |-> "null"], and [k |-> tag, data |-> payload] for "bool", "num",  *)
(*   "str", "arr" (a sequence) and "obj" (a function on the keys).         *)
(* FhirPathValue is [t |-> tag, data |-> payload]; Option<T> is            *)
(* [some |-> FALSE] or [some |-> TRUE, data |-> value].                    *)
(***************************************************************************)
EXTENDS Integers, Sequences, FiniteSets, TLC

VARIABLES args, context, result, prev, calls, budget, sigInit

vars == <<args, context, result, prev, calls, budget, sigInit>>

(***************************************************************************)
(* Bounds of the model.                                                    *)
(***************************************************************************)
MaxItems == 2
MaxEntries == 2
MaxNodes == 3
MaxArgs == 2
MaxCalls == 2

(***************************************************************************)
(* The values without payload come first: TLC orders the fields of a       *)
(* record by first occurrence, and two values of different tags must be    *)
(* told apart by the tag before their payloads are looked at.              *)
(***************************************************************************)
None == [some |-> FALSE]
JNull == [k |-> "null"]
Empty == [t |-> "Empty"]

(***************************************************************************)
(* Option<T>                                                               *)
(***************************************************************************)
Some(x) == [some |-> TRUE, data |-> x]

(***************************************************************************)
(* serde_json::Value                                                       *)
(***************************************************************************)
JBool(b) == [k |-> "bool", data |-> b]
JNum(n) == [k |-> "num", data |-> n]
JStr(s) == [k |-> "str", data |-> s]
JArr(a) == [k |-> "arr", data |-> a]
JObj(f) == [k |-> "obj", data |-> f]
EmptyObj == JObj(<<>>)

\* Value::get(key): the member of an object, None for a missing key or a
\* value that is not an object.
Get(j, key) == IF j.k = "obj" /\ key \in DOMAIN j.data THEN Some(j.data[key]) ELSE None
as_str(j) == IF j.k = "str" THEN Some(j.data) ELSE None
as_array(j) == IF j.k = "arr" THEN Some(j.data) ELSE None
as_object(j) == IF j.k = "obj" THEN Some(j.data) ELSE None

\* obj.get(key)?.as_str()? : the string under key, None when the key is
\* missing or holds no string.
GetStr(j, key) == IF Get(j, key).some THEN as_str(Get(j, key).data) ELSE None
GetArr(j, key) == IF Get(j, key).some THEN as_array(Get(j, key).data) ELSE None

(***************************************************************************)
(* FhirPathValue and FhirResource                                          *)
(***************************************************************************)
String(s) == [t |-> "String", data |-> s]
Integer(n) == [t |-> "Integer", data |-> n]
Boolean(b) == [t |-> "Boolean", data |-> b]
Resource(j) == [t |-> "Resource", data |-> j]
Collection(items) == [t |-> "Collection", data |-> items]

\* FhirResource::resource_type(): the string under "resourceType".
resource_type(res) == GetStr(res.data, "resourceType")

\* FhirPathValue::collection(values): one flat Collection, Empty members
\* dropped, members that are Collections spliced in.
RECURSIVE Flatten(_)
Flatten(vs) ==
  IF vs = <<>> THEN <<>>
  ELSE LET h == Head(vs) IN
       IF h.t = "Empty" THEN Flatten(Tail(vs))
       ELSE IF h.t = "Collection" THEN Flatten(h.data) \o Flatten(Tail(vs))
       ELSE <<h>> \o Flatten(Tail(vs))
collection(values) == Collection(Flatten(values))

(***************************************************************************)
(* Strings                                                                 *)
(***************************************************************************)
WhiteSpace == {" ", "\n", "\t"}

RECURSIVE TrimStart(_)
TrimStart(s) ==
  IF s # <<>> /\ Head(s) \in WhiteSpace THEN TrimStart(Tail(s)) ELSE s

RECURSIVE TrimEnd(_)
TrimEnd(s) ==
  IF s # <<>> /\ s[Len(s)] \in WhiteSpace
  THEN TrimEnd(SubSeq(s, 1, Len(s) - 1)) ELSE s

\* str::trim
trim(s) == TrimEnd(TrimStart(s))

\* str::starts_with
starts_with(s, p) == Len(s) >= Len(p) /\ SubSeq(s, 1, Len(p)) = p

\* str::contains(char)
contains(s, c) == \E i \in 1..Len(s) : s[i] = c

\* str::strip_prefix(char)
strip_prefix(s, c) ==
  IF s # <<>> /\ Head(s) = c THEN Some(Tail(s)) ELSE None

\* str::split(pred): the pieces between the characters of seps; always at
\* least one piece.
RECURSIVE SplitAcc(_, _, _)
SplitAcc(s, seps, cur) ==
  IF s = <<>> THEN <<cur>>
  ELSE IF Head(s) \in seps THEN <<cur>> \o SplitAcc(Tail(s), seps, <<>>)
  ELSE SplitAcc(Tail(s), seps, Append(cur, Head(s)))
split(s, seps) == SplitAcc(s, seps, <<>>)

(***************************************************************************)
(* Reference resolution                                                    *)
(***************************************************************************)

\* is_fhir_reference: contains '/', or starts with http://, https:// or urn:
sHttp == <<"h", "t", "t", "p", ":", "/", "/">>
sHttps == <<"h", "t", "t", "p", "s", ":", "/", "/">>
sUrn == <<"u", "r", "n", ":">>
is_fhir_reference(reference) ==
  \/ contains(reference, "/")
  \/ starts_with(reference, sHttp)
  \/ starts_with(reference, sHttps)
  \/ starts_with(reference, sUrn)

\* parse_reference_type_id: the last two '/'-segments, the id cut at the
\* first '?' or '#'; None with fewer than two segments.
parse_reference_type_id(reference) ==
  LET parts == split(reference, {"/"}) IN
  IF Len(parts) < 2 THEN None
  ELSE Some([type |-> parts[Len(parts) - 1],
             id |-> Head(split(parts[Len(parts)], {"?", "#"}))])

\* resolve_contained_resource, the loop over `contained` from index i on.
\* `item.as_object()?` and `obj.get("id")?.as_str()?` leave the function.
RECURSIVE ScanContained(_, _, _)
ScanContained(contained, i, id) ==
  IF i > Len(contained) THEN None
  ELSE LET item == contained[i] IN
       IF ~as_object(item).some THEN None
       ELSE IF ~GetStr(item, "id").some THEN None
       ELSE IF GetStr(item, "id").data = id THEN Some(Resource(item))
       ELSE ScanContained(contained, i + 1, id)

resolve_contained_resource(id, ctx) ==
  IF ctx.root.t = "Resource" /\ as_object(ctx.root.data).some
     /\ GetArr(ctx.root.data, "contained").some
  THEN ScanContained(GetArr(ctx.root.data, "contained").data, 1, id)
  ELSE None

\* resolve_in_bundle, first loop: exact fullUrl match.  The result is
\* [hit |-> FALSE] when the loop ends without a match, otherwise
\* [hit |-> TRUE, ret |-> what the function returns from inside the loop].
RECURSIVE ScanFullUrl(_, _, _)
ScanFullUrl(entries, i, reference) ==
  IF i > Len(entries) THEN [hit |-> FALSE]
  ELSE LET entry == entries[i] IN
       IF GetStr(entry, "fullUrl").some /\ GetStr(entry, "fullUrl").data = reference
       THEN [hit |-> TRUE,
             ret |-> IF Get(entry, "resource").some
                     THEN Some(Resource(Get(entry, "resource").data))
                     ELSE None]
       ELSE ScanFullUrl(entries, i + 1, reference)

\* resolve_in_bundle, second loop: resourceType/id of the inline resource.
\* Every `?` leaves the function with None.
RECURSIVE ScanTypeId(_, _, _)
ScanTypeId(entries, i, ref) ==
  IF i > Len(entries) THEN [hit |-> FALSE]
  ELSE LET entry == entries[i] IN
       IF ~Get(entry, "resource").some THEN [hit |-> TRUE, ret |-> None]
       ELSE LET res == Get(entry, "resource").data IN
            IF ~as_object(res).some THEN [hit |-> TRUE, ret |-> None]
            ELSE IF ~GetStr(res, "resourceType").some THEN [hit |-> TRUE, ret |-> None]
            ELSE IF GetStr(res, "resourceType").data # ref.type
                 THEN ScanTypeId(entries, i + 1, ref)
            ELSE IF ~GetStr(res, "id").some THEN [hit |-> TRUE, ret |-> None]
            ELSE IF GetStr(res, "id").data = ref.id
                 THEN [hit |-> TRUE, ret |-> Some(Resource(res))]
            ELSE ScanTypeId(entries, i + 1, ref)

\* resolve_in_bundle, third loop: type/id parsed from the tail of fullUrl.
RECURSIVE ScanUrlTail(_, _, _)
ScanUrlTail(entries, i, ref) ==
  IF i > Len(entries) THEN [hit |-> FALSE]
  ELSE LET entry == entries[i]
           fu == GetStr(entry, "fullUrl") IN
       IF fu.some /\ parse_reference_type_id(fu.data).some
          /\ parse_reference_type_id(fu.data).data.type = ref.type
          /\ parse_reference_type_id(fu.data).data.id = ref.id
       THEN [hit |-> TRUE,
             ret |-> IF Get(entry, "resource").some
                     THEN Some(Resource(Get(entry, "resource").data))
                     ELSE None]
       ELSE ScanUrlTail(entries, i + 1, ref)

\* resolve_in_bundle with the resourceType/id scan tried before the exact
\* fullUrl scan.
resolve_in_bundleTypeFirst(reference, bundle) ==
  IF ~GetArr(bundle.data, "entry").some THEN None
  ELSE LET entries == GetArr(bundle.data, "entry").data
           fast == ScanFullUrl(entries, 1, reference)
           parsed == parse_reference_type_id(reference)
           byType == IF parsed.some THEN ScanTypeId(entries, 1, parsed.data)
                     ELSE [hit |-> FALSE] IN
       IF byType.hit /\ byType.ret.some THEN byType.ret
       ELSE IF fast.hit THEN fast.ret
       ELSE None

resolve_in_bundle(reference, bundle) ==
  IF ~GetArr(bundle.data, "entry").some THEN None
  ELSE LET entries == GetArr(bundle.data, "entry").data
           fast == ScanFullUrl(entries, 1, reference)
           parsed == parse_reference_type_id(reference) IN
       IF fast.hit THEN fast.ret
       ELSE IF ~parsed.some THEN None
       ELSE LET byType == ScanTypeId(entries, 1, parsed.data) IN
            IF byType.hit THEN byType.ret
            ELSE LET byTail == ScanUrlTail(entries, 1, parsed.data) IN
                 IF byTail.hit THEN byTail.ret ELSE None

\* search_params: depth-first over `parameter` and nested `part`, from
\* index i on.  A `?` on a resource leaves the current invocation with None;
\* the caller one level up then goes on with its next element.
RECURSIVE search_params_from(_, _, _, _)
search_params_from(array, i, r_type, r_id) ==
  IF i > Len(array) THEN None
  ELSE LET param == array[i]
           res == Get(param, "resource")
           bad == res.some /\ (\/ ~as_object(res.data).some
                               \/ ~GetStr(res.data, "resourceType").some
                               \/ /\ GetStr(res.data, "resourceType").data = r_type
                                  /\ ~GetStr(res.data, "id").some)
           match == res.some /\ ~bad
                    /\ GetStr(res.data, "resourceType").data = r_type
                    /\ GetStr(res.data, "id").data = r_id
           parts == GetArr(param, "part")
           found == IF parts.some
                    THEN search_params_from(parts.data, 1, r_type, r_id)
                    ELSE None IN
       IF bad THEN None
       ELSE IF match THEN Some(Resource(res.data))
       ELSE IF found.some THEN found
       ELSE search_params_from(array, i + 1, r_type, r_id)

search_params(array, r_type, r_id) == search_params_from(array, 1, r_type, r_id)

resolve_in_parameters(reference, parameters) ==
  IF ~GetArr(parameters.data, "parameter").some THEN None
  ELSE IF parse_reference_type_id(reference).some
       THEN search_params(GetArr(parameters.data, "parameter").data,
                          parse_reference_type_id(reference).data.type,
                          parse_reference_type_id(reference).data.id)
       ELSE None

\* resolve_against_resource: the resource itself when its resourceType and
\* id are the parsed pair.
resolve_against_resource(reference, resource) ==
  LET parsed == parse_reference_type_id(reference) IN
  IF parsed.some /\ resource_type(resource).some
     /\ resource_type(resource).data = parsed.data.type
     /\ as_object(resource.data).some
     /\ GetStr(resource.data, "id").some
     /\ GetStr(resource.data, "id").data = parsed.data.id
  THEN Some(resource)
  ELSE None

sBundle == <<"B", "u", "n", "d", "l", "e">>
sParameters == <<"P", "a", "r", "a", "m", "e", "t", "e", "r", "s">>

\* The Resource arm with the resource itself tried only when it is neither
\* a Bundle nor a Parameters resource.
ResolveInResourceElse(ref_str, res) ==
  LET rt == resource_type(res) IN
  IF rt.some /\ rt.data = sBundle THEN resolve_in_bundle(ref_str, res)
  ELSE IF rt.some /\ rt.data = sParameters THEN resolve_in_parameters(ref_str, res)
  ELSE resolve_against_resource(ref_str, res)

\* One Resource of the root: Bundle or Parameters search by resourceType,
\* then the resource itself (the body shared by both arms of the match on
\* context.root).
ResolveInResource(ref_str, res) ==
  LET rt == resource_type(res)
      inner == IF rt.some /\ rt.data = sBundle THEN resolve_in_bundle(ref_str, res)
               ELSE IF rt.some /\ rt.data = sParameters
                    THEN resolve_in_parameters(ref_str, res)
               ELSE None IN
  IF inner.some THEN inner ELSE resolve_against_resource(ref_str, res)

\* The Collection arm returning whatever the first Resource member gives.
RECURSIVE ResolveInMembersFirstOnly(_, _, _)
ResolveInMembersFirstOnly(ref_str, coll, i) ==
  IF i > Len(coll) THEN None
  ELSE IF coll[i].t = "Resource" THEN ResolveInResource(ref_str, coll[i])
  ELSE ResolveInMembersFirstOnly(ref_str, coll, i + 1)

\* The Collection arm: members in order, Resources only, first match wins.
RECURSIVE ResolveInMembers(_, _, _)
ResolveInMembers(ref_str, coll, i) ==
  IF i > Len(coll) THEN None
  ELSE IF coll[i].t = "Resource" /\ ResolveInResource(ref_str, coll[i]).some
       THEN ResolveInResource(ref_str, coll[i])
  ELSE ResolveInMembers(ref_str, coll, i + 1)

\* create_placeholder_resource: never called by evaluate.
sResourceType == <<"R", "e", "s", "o", "u", "r", "c", "e">>
create_placeholder_resource(reference) ==
  LET parts == split(reference, {"/"}) IN
  Some(Resource(JObj(
    ("resourceType" :> JStr(IF contains(reference, "/") THEN Head(parts)
                            ELSE sResourceType))
    @@ ("id" :> JStr(parts[Len(parts)]))
    @@ ("_placeholder" :> JBool(TRUE))
    @@ ("_originalReference" :> JStr(reference)))))

\* resolve_string_reference ending in the placeholder fallback instead of
\* None.
resolve_string_referencePlaceholder(reference, ctx) ==
  LET ref_str == trim(reference)
      found == IF strip_prefix(ref_str, "#").some
               THEN resolve_contained_resource(strip_prefix(ref_str, "#").data, ctx)
               ELSE IF ctx.root.t = "Resource" THEN ResolveInResource(ref_str, ctx.root)
               ELSE IF ctx.root.t = "Collection"
                    THEN ResolveInMembers(ref_str, ctx.root.data, 1)
               ELSE None IN
  IF ~starts_with(ref_str, <<"#">>) /\ ~is_fhir_reference(ref_str) THEN None
  ELSE IF found.some THEN found
  ELSE create_placeholder_resource(ref_str)

\* resolve_string_reference without the syntax gate.
resolve_string_referenceNoGate(reference, ctx) ==
  LET ref_str == trim(reference) IN
  IF strip_prefix(ref_str, "#").some
  THEN resolve_contained_resource(strip_prefix(ref_str, "#").data, ctx)
  ELSE IF ctx.root.t = "Resource" THEN ResolveInResource(ref_str, ctx.root)
  ELSE IF ctx.root.t = "Collection"
       THEN ResolveInMembers(ref_str, ctx.root.data, 1)
  ELSE None

resolve_string_reference(reference, ctx) ==
  LET ref_str == trim(reference) IN
  IF ~starts_with(ref_str, <<"#">>) /\ ~is_fhir_reference(ref_str) THEN None
  ELSE IF strip_prefix(ref_str, "#").some
       THEN resolve_contained_resource(strip_prefix(ref_str, "#").data, ctx)
  ELSE IF ctx.root.t = "Resource" THEN ResolveInResource(ref_str, ctx.root)
  ELSE IF ctx.root.t = "Collection"
       THEN ResolveInMembers(ref_str, ctx.root.data, 1)
  ELSE None

\* is_reference testing the resourceType instead of the "reference" key.
sReference == <<"R", "e", "f", "e", "r", "e", "n", "c", "e">>
is_referenceByType(resource) ==
  resource_type(resource).some /\ resource_type(resource).data = sReference

\* is_reference: the resource's JSON is an object with a "reference" key.
is_reference(resource) ==
  as_object(resource.data).some /\ "reference" \in DOMAIN resource.data.data

resolve_reference_resource(resource, ctx) ==
  IF ~as_object(resource.data).some THEN None
  ELSE IF ~GetStr(resource.data, "reference").some THEN None
  ELSE resolve_string_reference(GetStr(resource.data, "reference").data, ctx)

resolve_item(item, ctx) ==
  IF item.t = "String" THEN resolve_string_reference(item.data, ctx)
  ELSE IF item.t = "Resource"
       THEN IF is_reference(item) THEN resolve_reference_resource(item, ctx)
            ELSE None
  ELSE None

\* FunctionResult<FhirPathValue>
Ok(v) == [ok |-> TRUE, value |-> v]
sResolve == <<"r", "e", "s", "o", "l", "v", "e">>
name == sResolve
InvalidArity(n, min, max, actual) ==
  [ok |-> FALSE, error |-> "InvalidArity", name |-> n, min |-> min,
   max |-> max, actual |-> actual]

\* The for loop of evaluate: push every Some(resolved).
RECURSIVE ResolveAll(_, _, _)
ResolveAll(items, i, ctx) ==
  IF i > Len(items) THEN <<>>
  ELSE LET r == resolve_item(items[i], ctx) IN
       (IF r.some THEN <<r.data>> ELSE <<>>) \o ResolveAll(items, i + 1, ctx)

\* evaluate looking at the input before the argument count.
evaluateInputFirst(as, ctx) ==
  IF ctx.input.t = "Empty" THEN Ok(Empty)
  ELSE IF as # <<>> THEN InvalidArity(name, 0, Some(0), Len(as))
  ELSE LET items == IF ctx.input.t = "Collection" THEN ctx.input.data
                    ELSE <<ctx.input>> IN
       Ok(collection(ResolveAll(items, 1, ctx)))

\* evaluate failing when an item does not resolve.
evaluateStrict(as, ctx) ==
  IF as # <<>> THEN InvalidArity(name, 0, Some(0), Len(as))
  ELSE IF ctx.input.t = "Empty" THEN Ok(Empty)
  ELSE LET items == IF ctx.input.t = "Collection" THEN ctx.input.data
                    ELSE <<ctx.input>> IN
       IF \E i \in 1..Len(items) : ~resolve_item(items[i], ctx).some
       THEN [ok |-> FALSE, error |-> "TypeMismatch"]
       ELSE Ok(collection(ResolveAll(items, 1, ctx)))

\* evaluate without the arm for an Empty input.
evaluateNoEmptyArm(as, ctx) ==
  IF as # <<>> THEN InvalidArity(name, 0, Some(0), Len(as))
  ELSE LET items == IF ctx.input.t = "Collection" THEN ctx.input.data
                    ELSE <<ctx.input>> IN
       Ok(collection(ResolveAll(items, 1, ctx)))

\* evaluate answering from a cache that the first call fills without
\* looking at the input again.
evaluateCached(as, ctx) ==
  IF as # <<>> THEN InvalidArity(name, 0, Some(0), Len(as))
  ELSE IF calls > 0 THEN Ok(Empty)
  ELSE IF ctx.input.t = "Empty" THEN Ok(Empty)
  ELSE LET items == IF ctx.input.t = "Collection" THEN ctx.input.data
                    ELSE <<ctx.input>> IN
       Ok(collection(ResolveAll(items, 1, ctx)))

evaluate(as, ctx) ==
  IF as # <<>> THEN InvalidArity(name, 0, Some(0), Len(as))
  ELSE IF ctx.input.t = "Empty" THEN Ok(Empty)
  ELSE LET items == IF ctx.input.t = "Collection" THEN ctx.input.data
                    ELSE <<ctx.input>> IN
       Ok(collection(ResolveAll(items, 1, ctx)))

(***************************************************************************)
(* LazyLock<FunctionSignature> of signature(): built on the first call,    *)
(* the only state the function keeps between calls.                        *)
(***************************************************************************)
FunctionSignature == [name |-> sResolve, parameters |-> <<>>]

(***************************************************************************)
(* The documents and inputs of the model                                   *)
(***************************************************************************)
s1 == <<"1">>
s2 == <<"2">>
s9 == <<"9">>
sP == <<"P">>
sO == <<"O">>

rFrag1 == <<"#", "1">>
rFrag2 == <<"#", "2">>
rFrag1Sp == <<" ", "#", "1">>
rP1 == <<"P", "/", "1">>
rP2 == <<"P", "/", "2">>
rP1Sp == <<" ", "P", "/", "1", "\n">>
rO1 == <<"O", "/", "1">>
rO2 == <<"O", "/", "2">>
rUrn == <<"u", "r", "n", ":", "a">>
rUrlP1 == <<"x", "/", "P", "/", "1">>
rBundle1 == sBundle \o <<"/", "1">>
rParameters1 == sParameters \o <<"/", "1">>
rNotARef == <<"n", "o">>
rBare1 == <<"1">>
rBare1Sp == <<"\t", "1", " ">>
rUrnOnly == <<"u", "r", "n">>
rP1Query == <<"P", "/", "1", "?", "q">>
rP1Frag == <<"P", "/", "1", "#", "f">>
rP1QuerySlash == <<"P", "/", "1", "?", "a", "/", "b">>
rUrlO1Query == <<"x", "/", "O", "/", "1", "?", "q">>

\* {resourceType: t, id: i} and the same with one more member, so that two
\* resources of one (type, id) can be told apart.
Res(t, i) == JObj(("resourceType" :> JStr(t)) @@ ("id" :> JStr(i)))
ResB(t, i) == JObj(("resourceType" :> JStr(t)) @@ ("id" :> JStr(i))
                   @@ ("active" :> JBool(TRUE)))
ResNoId(t) == JObj("resourceType" :> JStr(t))
ResNoType(i) == JObj("id" :> JStr(i))
ResNumId(t) == JObj(("resourceType" :> JStr(t)) @@ ("id" :> JNum(1)))
NotAnObject == JStr(rP1)

\* An optional member of an object.
Opt(key, o) == IF o.some THEN key :> o.data ELSE <<>>

\* All sequences over S of length at most n.
RECURSIVE SeqsUpTo(_, _)
SeqsUpTo(S, n) ==
  IF n = 0 THEN {<<>>}
  ELSE LET shorter == SeqsUpTo(S, n - 1) IN
       shorter \cup {Append(q, x) : q \in {r \in shorter : Len(r) = n - 1}, x \in S}

\* Roots with a `contained` array.
ContainedKinds ==
  {Res(sP, s1), ResB(sO, s1), Res(sP, s2), ResNoId(sP), ResNumId(sP), NotAnObject}
WithContained(arr) ==
  Resource(JObj(("resourceType" :> JStr(sP)) @@ ("id" :> JStr(s9))
                @@ ("contained" :> JArr(arr))))
ContainedRoots == {WithContained(a) : a \in SeqsUpTo(ContainedKinds, MaxEntries)}

\* Bundle roots.
EntryUrls == {None, Some(JStr(rUrn)), Some(JStr(rUrlP1)), Some(JStr(rBundle1))}
EntryResources ==
  {None, Some(Res(sP, s1)), Some(ResB(sP, s1)), Some(Res(sO, s1)),
   Some(ResNoId(sP)), Some(NotAnObject)}
EntryKinds ==
  {JObj(Opt("fullUrl", u) @@ Opt("resource", r)) : u \in EntryUrls, r \in EntryResources}
BundleOf(entries) ==
  Resource(JObj(("resourceType" :> JStr(sBundle)) @@ ("id" :> JStr(s1))
                @@ ("entry" :> JArr(entries))))
BundleRoots == {BundleOf(e) : e \in SeqsUpTo(EntryKinds, MaxEntries)}

\* Parameters roots: every forest of at most MaxNodes parameters.
ParamResources ==
  {None, Some(Res(sO, s1)), Some(ResB(sO, s1)), Some(ResNoId(sO)), Some(NotAnObject)}
Param(r, parts) ==
  JObj(Opt("resource", r) @@ (IF parts = <<>> THEN <<>> ELSE "part" :> JArr(parts)))
\* The shapes of the forests of n nodes: a forest is the sequence of its
\* trees, a tree the forest of its children.
RECURSIVE ShapesOf(_)
ShapesOf(n) ==
  IF n = 0 THEN {<<>>}
  ELSE UNION {{<<c>> \o rest : c \in ShapesOf(i), rest \in ShapesOf(n - 1 - i)} :
              i \in 0..(n - 1)}
RECURSIVE SizeOf(_)
SizeOf(shape) ==
  IF shape = <<>> THEN 0 ELSE 1 + SizeOf(Head(shape)) + SizeOf(Tail(shape))
\* The `parameter` array of a shape whose nodes carry, in pre-order from
\* index k on, the resources of rs.
RECURSIVE ParamsOf(_, _, _)
ParamsOf(shape, rs, k) ==
  IF shape = <<>> THEN <<>>
  ELSE <<Param(rs[k], ParamsOf(Head(shape), rs, k + 1))>>
       \o ParamsOf(Tail(shape), rs, k + 1 + SizeOf(Head(shape)))
ParametersOf(params) ==
  Resource(JObj(("resourceType" :> JStr(sParameters)) @@ ("id" :> JStr(s1))
                @@ ("parameter" :> JArr(params))))

\* A Reference-shaped Resource.
ReferenceTo(r) == Resource(JObj("reference" :> JStr(r)))

\* A few roots of every shape.
SampleBundle ==
  BundleOf(<<JObj(("fullUrl" :> JStr(rUrn)) @@ ("resource" :> Res(sP, s1)))>>)
SampleParameters ==
  ParametersOf(<<Param(None, <<Param(Some(Res(sO, s1)), <<>>)>>)>>)
SampleContained == WithContained(<<Res(sP, s1), ResB(sO, s2)>>)
SampleRoots ==
  {SampleContained, SampleBundle, SampleParameters,
   Resource(Res(sP, s1)), Resource(NotAnObject), Empty, String(rP1),
   Collection(<<SampleBundle, Integer(1), Resource(ResB(sP, s1))>>),
   Collection(<<SampleContained, SampleParameters>>)}

\* Roots in which a reference could match in more than one way: a Bundle
\* whose fullUrl is a bare id, a Parameters resource holding a resource of
\* its own (type, id), Bundles whose only match is an inline resource.
BareUrlBundle ==
  BundleOf(<<JObj(("fullUrl" :> JStr(rBare1)) @@ ("resource" :> Res(sP, s1)))>>)
NestedParameters ==
  ParametersOf(<<Param(Some(ResB(sParameters, s1)), <<>>)>>)
InlineBundle == BundleOf(<<JObj("resource" :> ResB(sP, s1))>>)
BrokenBundle == BundleOf(<<EmptyObj, JObj("resource" :> ResB(sP, s1))>>)

\* Collection roots: every sequence of at most MaxItems members.
MemberKinds ==
  {SampleBundle, InlineBundle, BrokenBundle, SampleParameters,
   Resource(Res(sP, s1)), Integer(1)}
CollectionRoots == {Collection(q) : q \in SeqsUpTo(MemberKinds, MaxItems)}

SyntaxRoots ==
  SampleRoots \cup CollectionRoots
  \cup {BareUrlBundle, NestedParameters, InlineBundle, BrokenBundle}

\* Reference strings of every syntax.
SyntaxRefs ==
  {String(rP1), String(rP1Sp), String(rUrlP1), String(rP1Query), String(rP1Frag),
   String(rP1QuerySlash), String(rO1), String(rUrlO1Query), String(rUrn),
   String(rUrnOnly), String(rBare1), String(rBare1Sp), String(rNotARef),
   String(rBundle1), String(rParameters1), String(rFrag1), String(rFrag1Sp)}

\* Items of the input.
StringItems ==
  {String(rFrag1), String(rFrag2), String(rP1), String(rO1), String(rUrn),
   String(rNotARef)}
ReferenceItems ==
  {ReferenceTo(rFrag1), ReferenceTo(rP1Sp), ReferenceTo(rNotARef),
   Resource(JObj("reference" :> JNum(1)))}
OtherItems ==
  {Resource(Res(sP, s1)), Resource(NotAnObject), Integer(1), Empty}
Items == StringItems \cup ReferenceItems \cup OtherItems
Inputs == Items \cup {Collection(q) : q \in SeqsUpTo(Items, MaxItems)}
\* The inputs of repeated calls.
RepeatedItems ==
  {String(rFrag1), String(rP1), String(rNotARef), ReferenceTo(rP1Sp), Integer(1), Empty}
RepeatedInputs ==
  RepeatedItems \cup {Collection(q) : q \in SeqsUpTo(RepeatedItems, MaxItems)}

\* Single references tried against every root of a family.
ContainedRefs ==
  {String(rFrag1), String(rFrag2), String(rFrag1Sp), ReferenceTo(rFrag1), String(rP1)}
BundleRefs ==
  {String(rP1), String(rP1Sp), String(rUrn), String(rO1), String(rUrlP1),
   String(rBundle1), ReferenceTo(rP1), String(rP1Query)}
ParametersRefs ==
  {String(rO1), String(rO2), String(rParameters1), ReferenceTo(rO1),
   String(rUrlO1Query)}

Environments(root) == {<<>>, "resource" :> root}
Context(input, root, env) == [input |-> input, root |-> root, environment |-> env]

\* Argument lists of a call with arguments, and the inputs tried with them.
ArgValues == {String(rP1), Integer(1)}
ArgLists == SeqsUpTo(ArgValues, MaxArgs) \ {<<>>}
ArityInputs ==
  {Empty, String(rFrag1), String(rUrn), Collection(<<String(rP1), Integer(1)>>)}

(***************************************************************************)
(* The state machine: a caller holding an argument list and a context      *)
(* calls evaluate `budget` times; signature() may be called at any time.   *)
(***************************************************************************)
\* Every input against a few roots.
InitInputs ==
  /\ args = <<>>
  /\ \E i \in Inputs, r \in SampleRoots : context = Context(i, r, <<>>)

\* The inputs of repeated calls against a few roots.
InitRepeated ==
  /\ args = <<>>
  /\ \E i \in RepeatedInputs, r \in SampleRoots : context = Context(i, r, <<>>)

\* Every reference syntax against the roots with several possible matches.
InitSyntax ==
  /\ args = <<>>
  /\ \E i \in SyntaxRefs, r \in SyntaxRoots : context = Context(i, r, <<>>)

\* Single references against every root of a family.
InitRoots ==
  /\ args = <<>>
  /\ \/ \E i \in ContainedRefs, r \in ContainedRoots : context = Context(i, r, <<>>)
     \/ \E i \in BundleRefs, r \in BundleRoots : context = Context(i, r, <<>>)
     \/ \E i \in ParametersRefs, n \in 0..MaxNodes :
          \E shape \in ShapesOf(n), rs \in [1..n -> ParamResources] :
            context = Context(i, ParametersOf(ParamsOf(shape, rs, 1)), <<>>)

\* Calls with arguments.
InitArity ==
  /\ args \in ArgLists
  /\ \E i \in ArityInputs, r \in SampleRoots :
       \E e \in Environments(r) : context = Context(i, r, e)

InitRest ==
  /\ result = None
  /\ prev = None
  /\ calls = 0
  /\ sigInit = FALSE

Init ==
  (InitInputs \/ InitRoots \/ InitSyntax \/ InitArity) /\ InitRest /\ budget = 1

InitCalls == (InitRepeated \/ InitArity) /\ InitRest /\ budget = MaxCalls

\* evaluate(&self, args, context): the context is borrowed immutably.
Evaluate ==
  /\ calls < budget
  /\ result' = Some(evaluate(args, context))
  /\ prev' = result
  /\ calls' = calls + 1
  /\ UNCHANGED <<args, context, budget, sigInit>>

\* signature(): the first call builds the static signature.
Signature ==
  /\ ~sigInit
  /\ sigInit' = TRUE
  /\ UNCHANGED <<args, context, result, prev, calls, budget>>

Next == Evaluate

NextCalls == Evaluate \/ Signature

Spec == Init /\ [][Next]_vars

SpecCalls == InitCalls /\ [][NextCalls]_vars

(***************************************************************************)
(* Properties                                                              *)
(***************************************************************************)
\* The members of a value read as a collection: none for Empty, the value
\* itself for a single value.
ItemsOf(value) ==
  IF value.t = "Empty" THEN <<>>
  ELSE IF value.t = "Collection" THEN value.data
  ELSE <<value>>

Returned == result.some
NoArgsCall == result.some /\ args = <<>>

\* C1: a call with a non-empty argument list returns InvalidArity with name
\* "resolve", min 0, max 0 and actual = the number of arguments, whatever the
\* context is; it returns no value.
C1_InvalidArity ==
  (Returned /\ args # <<>>) =>
    /\ ~result.data.ok
    /\ result.data = [ok |-> FALSE, error |-> "InvalidArity", name |-> sResolve,
                      min |-> 0, max |-> Some(0), actual |-> Len(args)]

C1_Witness ==
  /\ Returned
  /\ Len(args) = 2
  /\ context.input = Empty
  /\ context.root = SampleContained
  /\ result.data.actual = 2

\* C2: a call without arguments never returns an error; its result holds,
\* in input order, the resolved Resource of exactly the input items that
\* resolve; items that are not reference-shaped contribute nothing, and the
\* output is never longer than the input.
NotReferenceShaped(item) ==
  \/ item.t \notin {"String", "Resource"}
  \/ /\ item.t = "String"
     /\ ~starts_with(trim(item.data), <<"#">>)
     /\ ~contains(trim(item.data), "/")
     /\ ~starts_with(trim(item.data), sHttp)
     /\ ~starts_with(trim(item.data), sHttps)
     /\ ~starts_with(trim(item.data), sUrn)
  \/ /\ item.t = "Resource"
     /\ ~(item.data.k = "obj" /\ "reference" \in DOMAIN item.data.data)

C2_LossyFilter ==
  NoArgsCall =>
    LET in == ItemsOf(context.input)
        resolving == {i \in 1..Len(in) : resolve_item(in[i], context).some}
        nth(j) == CHOOSE i \in resolving : Cardinality({m \in resolving : m < i}) = j - 1
    IN /\ result.data.ok
       /\ LET out == ItemsOf(result.data.value) IN
          /\ Len(out) = Cardinality(resolving)
          /\ Len(out) <= Len(in)
          /\ \A j \in 1..Len(out) :
               /\ out[j].t = "Resource"
               /\ out[j] = resolve_item(in[nth(j)], context).data
          /\ \A i \in 1..Len(in) : NotReferenceShaped(in[i]) => i \notin resolving

C2_Witness ==
  /\ NoArgsCall
  /\ context.input = Collection(<<String(rNotARef), String(rFrag1)>>)
  /\ context.root = SampleContained
  /\ result.data = Ok(Collection(<<Resource(Res(sP, s1))>>))

\* C3: a call without arguments on an Empty input returns Empty, whatever
\* the root is.
C3_EmptyInput ==
  (NoArgsCall /\ context.input = Empty) => result.data = Ok(Empty)

C3_Witness ==
  /\ NoArgsCall
  /\ context.input = Empty
  /\ context.root = SampleBundle
  /\ result.data = Ok(Empty)

MinOf(S) == CHOOSE i \in S : \A j \in S : i <= j

\* The single string item of the input, trimmed, when it is a reference
\* that passes the syntax gate and is no fragment.
StringCall == NoArgsCall /\ context.input.t = "String"
TrimmedRef == trim(context.input.data)
NonFragmentRef ==
  /\ StringCall
  /\ ~starts_with(TrimmedRef, <<"#">>)
  /\ is_fhir_reference(TrimmedRef)

RootIs(type, member) ==
  /\ context.root.t = "Resource"
  /\ GetStr(context.root.data, "resourceType") = Some(type)
  /\ GetArr(context.root.data, member).some

One(json) == Ok(Collection(<<Resource(json)>>))
Nothing == Ok(Collection(<<>>))

\* C4: "#X" resolves to the first `contained` entry of the root Resource
\* whose id is X, whatever the other entries are; it is dropped when no
\* entry has id X, when the root has no `contained` array or is no Resource.
C4_FragmentFirstMatch ==
  (StringCall /\ starts_with(TrimmedRef, <<"#">>)) =>
    LET X == Tail(TrimmedRef)
        contained == IF context.root.t = "Resource"
                        /\ GetArr(context.root.data, "contained").some
                     THEN GetArr(context.root.data, "contained").data
                     ELSE <<>>
        hits == {i \in 1..Len(contained) : GetStr(contained[i], "id") = Some(X)}
    IN result.data = IF hits = {} THEN Nothing ELSE One(contained[MinOf(hits)])

\* C5: in a Bundle root, the first entry whose fullUrl equals the trimmed
\* reference decides the result before any type/id comparison: its resource
\* is the result, also when another entry's resource has the parsed
\* (type, id) and when the reference has no (type, id); when that entry
\* carries no resource, no entry of the Bundle is returned.
UrlHits(entries) ==
  {i \in 1..Len(entries) : GetStr(entries[i], "fullUrl") = Some(TrimmedRef)}
TypeHits(entries) ==
  {i \in 1..Len(entries) :
     /\ parse_reference_type_id(TrimmedRef).some
     /\ Get(entries[i], "resource").some
     /\ GetStr(entries[i].data.resource, "resourceType")
          = Some(parse_reference_type_id(TrimmedRef).data.type)
     /\ GetStr(entries[i].data.resource, "id")
          = Some(parse_reference_type_id(TrimmedRef).data.id)}

C5_FullUrlFirst ==
  (NonFragmentRef /\ RootIs(sBundle, "entry")) =>
    LET entries == GetArr(context.root.data, "entry").data IN
    UrlHits(entries) # {} =>
      LET entry == entries[MinOf(UrlHits(entries))] IN
      IF Get(entry, "resource").some
      THEN result.data = One(entry.data.resource)
      ELSE result.data \in {Nothing, Ok(Collection(<<context.root>>))}

C5_Witness ==
  /\ NonFragmentRef
  /\ context.input = String(rUrlP1)
  /\ context.root = BundleOf(<<JObj("resource" :> Res(sP, s1)),
                               JObj(("fullUrl" :> JStr(rUrlP1))
                                    @@ ("resource" :> Res(sO, s1)))>>)
  /\ result.data = One(Res(sO, s1))

\* C6: in a Bundle root with no fullUrl equal to the reference, the first
\* entry whose inline resource has the parsed (resourceType, id) is the
\* result, whatever the entries before it hold.
C6_BundleTypeId ==
  (NonFragmentRef /\ RootIs(sBundle, "entry")) =>
    LET entries == GetArr(context.root.data, "entry").data IN
    (UrlHits(entries) = {} /\ TypeHits(entries) # {}) =>
      result.data = One(entries[MinOf(TypeHits(entries))].data.resource)

\* C7: in a Parameters root, the first resource in depth-first pre-order
\* (own resource, then part, then the next sibling) with the parsed
\* (resourceType, id) is the result, whatever the elements visited before
\* it hold.
RECURSIVE PreOrder(_)
PreOrder(array) ==
  IF array = <<>> THEN <<>>
  ELSE LET p == Head(array) IN
       (IF Get(p, "resource").some THEN <<p.data.resource>> ELSE <<>>)
       \o (IF GetArr(p, "part").some THEN PreOrder(p.data.part.data) ELSE <<>>)
       \o PreOrder(Tail(array))

C7_ParametersPreOrder ==
  (NonFragmentRef /\ RootIs(sParameters, "parameter")
   /\ parse_reference_type_id(TrimmedRef).some) =>
    LET visited == PreOrder(GetArr(context.root.data, "parameter").data)
        pair == parse_reference_type_id(TrimmedRef).data
        hits == {i \in 1..Len(visited) :
                   /\ GetStr(visited[i], "resourceType") = Some(pair.type)
                   /\ GetStr(visited[i], "id") = Some(pair.id)}
    IN hits # {} => result.data = One(visited[MinOf(hits)])

\* C8: every Resource of the output equals a value present in the root (the
\* root, a member of a root Collection, or a value nested in one of them);
\* no placeholder built from the reference string is returned.
RECURSIVE SubValues(_)
SubValues(j) ==
  {j} \cup
  (IF j.k = "arr" THEN UNION {SubValues(j.data[i]) : i \in 1..Len(j.data)}
   ELSE IF j.k = "obj" THEN UNION {SubValues(j.data[key]) : key \in DOMAIN j.data}
   ELSE {})

PresentIn(root) ==
  IF root.t = "Resource" THEN {Resource(x) : x \in SubValues(root.data)}
  ELSE IF root.t = "Collection"
       THEN UNION {IF root.data[i].t = "Resource"
                   THEN {Resource(x) : x \in SubValues(root.data[i].data)}
                   ELSE {} : i \in 1..Len(root.data)}
  ELSE {}

IsPlaceholder(value) ==
  /\ value.t = "Resource"
  /\ value.data.k = "obj"
  /\ ("_placeholder" \in DOMAIN value.data.data
      \/ "_originalReference" \in DOMAIN value.data.data)

C8_NoFabrication ==
  (Returned /\ result.data.ok) =>
    \A j \in 1..Len(ItemsOf(result.data.value)) :
      /\ ItemsOf(result.data.value)[j] \in PresentIn(context.root)
      /\ ~IsPlaceholder(ItemsOf(result.data.value)[j])

C8_Witness ==
  /\ NonFragmentRef
  /\ context.input = String(rO1)
  /\ context.root = BundleOf(<<JObj(("fullUrl" :> JStr(rUrn))
                                    @@ ("resource" :> Res(sP, s1)))>>)
  /\ result.data = Nothing

RECURSIVE AsStrings(_)
AsStrings(items) ==
  IF items = <<>> THEN <<>>
  ELSE LET h == Head(items) IN
       (IF h.t = "String" THEN <<h>>
        ELSE IF h.t = "Resource" /\ GetStr(h.data, "reference").some
             THEN <<String(GetStr(h.data, "reference").data)>>
        ELSE <<>>)
       \o AsStrings(Tail(items))

C10_ReferenceShaped ==
  (NoArgsCall /\ context.input # Empty) =>
    result.data =
      evaluate(<<>>, Context(Collection(AsStrings(ItemsOf(context.input))),
                             context.root, context.environment))

C10_Witness ==
  /\ NoArgsCall
  /\ context.input = ReferenceTo(rP1Sp)
  /\ context.root = SampleBundle
  /\ result.data = One(Res(sP, s1))

\* C11: in a Bundle root where no fullUrl equals the reference and no
\* inline resource has the parsed (resourceType, id), the first entry whose
\* fullUrl, parsed by its own last two segments, gives the reference's
\* (type, id) decides: its resource is the result, whatever the other
\* entries hold.
TailHits(entries) ==
  {i \in 1..Len(entries) :
     /\ parse_reference_type_id(TrimmedRef).some
     /\ GetStr(entries[i], "fullUrl").some
     /\ parse_reference_type_id(GetStr(entries[i], "fullUrl").data)
          = parse_reference_type_id(TrimmedRef)}

C11_FullUrlTail ==
  (NonFragmentRef /\ RootIs(sBundle, "entry")) =>
    LET entries == GetArr(context.root.data, "entry").data IN
    (/\ UrlHits(entries) = {}
     /\ TypeHits(entries) = {}
     /\ TailHits(entries) # {}
     /\ Get(entries[MinOf(TailHits(entries))], "resource").some) =>
      result.data = One(entries[MinOf(TailHits(entries))].data.resource)

\* C12: when the root Resource has the reference's parsed (type, id), the
\* result is what the Bundle or Parameters search of that root found, and
\* the root itself when that search found nothing or the root is of another
\* type.
RootHasPair ==
  /\ context.root.t = "Resource"
  /\ parse_reference_type_id(TrimmedRef).some
  /\ GetStr(context.root.data, "resourceType")
       = Some(parse_reference_type_id(TrimmedRef).data.type)
  /\ GetStr(context.root.data, "id")
       = Some(parse_reference_type_id(TrimmedRef).data.id)

SearchOfRoot ==
  IF GetStr(context.root.data, "resourceType") = Some(sBundle)
  THEN resolve_in_bundle(TrimmedRef, context.root)
  ELSE IF GetStr(context.root.data, "resourceType") = Some(sParameters)
       THEN resolve_in_parameters(TrimmedRef, context.root)
  ELSE None

C12_RootSelfMatch ==
  (NonFragmentRef /\ RootHasPair) =>
    result.data = IF SearchOfRoot.some
                  THEN Ok(Collection(<<SearchOfRoot.data>>))
                  ELSE Ok(Collection(<<context.root>>))

C12_Witness ==
  /\ NonFragmentRef
  /\ context.input = String(rBundle1)
  /\ context.root = BundleOf(<<JObj(("fullUrl" :> JStr(rUrn))
                                    @@ ("resource" :> Res(sP, s1)))>>)
  /\ result.data = Ok(Collection(<<context.root>>))

\* The search result comes before the root itself.
C12_WitnessPrecedence ==
  /\ NonFragmentRef
  /\ context.input = String(rParameters1)
  /\ context.root = NestedParameters
  /\ result.data = One(ResB(sParameters, s1))

\* C13: with a Collection root, a non-fragment reference resolves to what
\* the first Resource member that yields a match yields when it is the
\* single root; members that are no Resource are ignored, and the item is
\* dropped when no member yields a match.
AgainstMember(i) ==
  evaluate(<<>>, Context(context.input, context.root.data[i], context.environment))

C13_MultiRoot ==
  (NonFragmentRef /\ context.root.t = "Collection") =>
    LET yielding == {i \in 1..Len(context.root.data) :
                       /\ context.root.data[i].t = "Resource"
                       /\ AgainstMember(i) # Nothing}
    IN result.data = IF yielding = {} THEN Nothing ELSE AgainstMember(MinOf(yielding))

C13_Witness ==
  /\ NonFragmentRef
  /\ context.input = String(rP1)
  /\ context.root = Collection(<<SampleParameters, InlineBundle>>)
  /\ result.data = One(ResB(sP, s1))

\* C14: a string item resolves like the same string without its surrounding
\* whitespace and like the same string with whitespace added; a trimmed
\* string that does not start with '#', holds no '/' and does not start
\* with "http://", "https://" or "urn:" is never resolved, whatever the
\* root holds.
WithInput(value) == evaluate(<<>>, Context(value, context.root, context.environment))

FailsGate(s) ==
  /\ ~(s # <<>> /\ Head(s) = "#")
  /\ \A i \in 1..Len(s) : s[i] # "/"
  /\ ~starts_with(s, sHttp)
  /\ ~starts_with(s, sHttps)
  /\ ~starts_with(s, sUrn)

C14_SyntaxGate ==
  StringCall =>
    /\ result.data = WithInput(String(TrimmedRef))
    /\ result.data = WithInput(String(<<" ", "\t">> \o context.input.data \o <<"\n">>))
    /\ FailsGate(TrimmedRef) => result.data = Nothing

C14_Witness ==
  /\ StringCall
  /\ context.input = String(rBare1Sp)
  /\ context.root = BareUrlBundle
  /\ result.data = Nothing

\* The fullUrl strings of the entries of the Bundles among the root
\* resources, and the resources such entries carry under a given fullUrl.
RootResources ==
  IF context.root.t = "Resource" THEN {context.root.data}
  ELSE IF context.root.t = "Collection"
       THEN {context.root.data[i].data :
               i \in {j \in 1..Len(context.root.data) :
                        context.root.data[j].t = "Resource"}}
  ELSE {}
RootEntries ==
  UNION {{GetArr(r, "entry").data[i] : i \in 1..Len(GetArr(r, "entry").data)} :
           r \in {q \in RootResources :
                    /\ GetStr(q, "resourceType") = Some(sBundle)
                    /\ GetArr(q, "entry").some}}
RootFullUrls ==
  {GetStr(e, "fullUrl").data : e \in {x \in RootEntries : GetStr(x, "fullUrl").some}}

\* The reference up to its first '?' or '#', the (type, id) pair read from
\* that part, and "T/I" written out.
CutAt(s) == Head(split(s, {"?", "#"}))
PairOfCut(s) ==
  LET segs == split(CutAt(s), {"/"}) IN
  IF Len(segs) < 2 THEN None
  ELSE Some([type |-> segs[Len(segs) - 1], id |-> segs[Len(segs)]])
Slashed(pair) == pair.type \o <<"/">> \o pair.id
SlashFreeSuffix(s) == \A i \in (Len(CutAt(s)) + 1)..Len(s) : s[i] # "/"
LastTwo(s) ==
  LET segs == split(s, {"/"}) IN segs[Len(segs) - 1] \o <<"/">> \o segs[Len(segs)]

\* A reference without '/' resolves to nothing or to the resource of a
\* Bundle entry whose fullUrl equals it.
OnlyByFullUrl ==
  (NonFragmentRef /\ Len(split(TrimmedRef, {"/"})) < 2) =>
    result.data \in
      {Nothing} \cup
      {One(e.data.resource) :
         e \in {x \in RootEntries : /\ GetStr(x, "fullUrl") = Some(TrimmedRef)
                                    /\ Get(x, "resource").some}}

SlashFreeSuffixAgrees ==
  /\ (NonFragmentRef /\ PairOfCut(TrimmedRef).some /\ SlashFreeSuffix(TrimmedRef)
      /\ RootFullUrls \cap {TrimmedRef, Slashed(PairOfCut(TrimmedRef).data)} = {})
       => result.data = WithInput(String(Slashed(PairOfCut(TrimmedRef).data)))
  /\ (NonFragmentRef /\ Len(split(TrimmedRef, {"/"})) >= 2
      /\ RootFullUrls \cap {TrimmedRef, LastTwo(TrimmedRef)} = {})
       => result.data = WithInput(String(LastTwo(TrimmedRef)))
  /\ OnlyByFullUrl

SlashFreeSuffixReached ==
  /\ StringCall
  /\ context.input = String(rP1Query)
  /\ context.root = InlineBundle
  /\ result.data = One(ResB(sP, s1))

====
